---- MODULE Spec2Model ----
(***************************************************************************)
(* State-machine model of src/app.py: a Streamlit chat page over the       *)
(* OpenAI Responses API.  One session: the transcript kept in              *)
(* st.session_state.messages, the script runs that a user action starts    *)
(* (Clean chat, a chat_input submission), and inside a submission the      *)
(* steps of stream_response: opening the stream, one step per event of     *)
(* the for loop, stream.until_done(), the return, and the save of the      *)
(* reply by the main script.                                               *)
(*                                                                         *)
(* Text is a sequence of characters; str + str is \o.  A script run is     *)
(* taken to completion before the next user action starts another one      *)
(* (one outstanding stream per user turn).                                 *)
(***************************************************************************)
EXTENDS Integers, Sequences, FiniteSets, TLC

\* ------------------------------------------------------------------ bounds
MaxEvents == 2
MaxTurns == 3
MaxResets == 2

\* ------------------------------------------------------- inputs of the model
\* Texts a user can type into st.chat_input; <<>> is "nothing submitted"
\* (chat_input gives None, which `if prompt:` treats as it treats "").
Prompts == {<<"p">>}
PromptInputs == Prompts \cup {<<>>}

\* event.type of a text fragment (app.py line 179)
DeltaType == "response.output_text.delta"

\* Payloads of text-fragment events
Payloads == {<<"a">>, <<"b">>}

\* Events the stream can deliver: text fragments, and events of other types
\* (one of them carries a .delta attribute too, one is the completion signal).
FragmentEvents == {[type |-> DeltaType, delta |-> d] : d \in Payloads}
OtherEvents == {[type |-> "response.refusal.delta", delta |-> <<"x">>],
                [type |-> "response.completed", delta |-> <<>>]}
Events == FragmentEvents \cup OtherEvents

\* ------------------------------------------------------------------ state
VARIABLES
    messages,        \* st.session_state.messages
    pc,              \* position of the script run
    prompt,          \* prompt of the current run
    input_messages,  \* messages passed to client.responses.stream
    full_text,       \* local of stream_response
    output_text,     \* value returned by stream_response
    status,          \* Idle, Streaming, Completed (return full_text), Failed (return "")
    delivered,       \* events the for loop has received in this run
    renders,         \* values passed to placeholder.markdown in this run
    errors,          \* calls of st.error in this run
    raised,          \* an exception was raised inside the try block in this run
    history,         \* messages appended since the last reset, in order
    appended,        \* assistant messages appended since the last submission
    cleared,         \* messages removed by the Clean chat runs counted in resets
    resets           \* Clean chat runs in a row just before this state

vars == <<messages, pc, prompt, input_messages, full_text, output_text, status,
          delivered, renders, errors, raised, history, appended, cleared, resets>>

\* -------------------------------------------------------------- operators
\* Python truthiness of a str (or None): `if prompt:`, `if output_text:`
Truthy(s) == Len(s) > 0

Message(role, content) == [role |-> role, content |-> content]

NumRole(msgs, r) == Cardinality({i \in 1..Len(msgs) : msgs[i].role = r})

\* User turns of a transcript (what MaxTurns bounds)
UserTurns(msgs) == NumRole(msgs, "user")

\* init_state: messages is created empty only when the key is missing
init_state(present, msgs) == IF present THEN msgs ELSE <<>>

\* Variant: the reset keeps the first message instead of emptying the list
CleanChatKeepsFirst(msgs) == IF Len(msgs) = 0 THEN <<>> ELSE <<msgs[1]>>

\* `st.session_state.messages = []` of the Clean chat button
CleanChatMessages(msgs) == <<>>

\* append_and_render_user: messages.append({"role": "user", "content": prompt})
append_and_render_user(msgs, p) == Append(msgs, Message("user", p))

\* Variant: the request carries only the newest message
BuildInputLastOnly(msgs) ==
    IF Len(msgs) = 0 THEN <<>>
    ELSE <<[role |-> msgs[Len(msgs)].role, content |-> msgs[Len(msgs)].content]>>

\* input_messages = [{"role": m["role"], "content": m["content"]} for m in messages]
BuildInput(msgs) ==
    [i \in 1..Len(msgs) |-> [role |-> msgs[i].role, content |-> msgs[i].content]]

\* Variant: the delta of every event is accumulated, whatever its type
AccumulateAnyType(text, e) == text \o e.delta

\* Body of the for loop on one event: the new full_text
Accumulate(text, e) == IF e.type = DeltaType THEN text \o e.delta ELSE text

\* Variant: only the new fragment is rendered, not the accumulated text
RenderDeltaOnly(log, text, e) ==
    IF e.type = DeltaType THEN Append(log, e.delta) ELSE log

\* Body of the for loop on one event: the calls of placeholder.markdown so far
Render(log, text, e) ==
    IF e.type = DeltaType THEN Append(log, Accumulate(text, e)) ELSE log

\* Variant: the except branch shows no notification
StErrorSilent(n) == n

\* st.error(...) of the except branch: one more notification on the page
StError(n) == n + 1

\* Variant: the except branch returns the partial buffer
FailureResultPartial == full_text

\* `return ""` of the except branch
FailureResult == <<>>

\* Variant: the reply is never saved
SaveReplyNever(msgs, out) == msgs

\* Variant: the reply is saved without the `if output_text:` test
SaveReplyAlways(msgs, out) == Append(msgs, Message("assistant", out))

\* `if output_text: messages.append({"role": "assistant", ...})`
SaveReply(msgs, out) ==
    IF Truthy(out) THEN Append(msgs, Message("assistant", out)) ELSE msgs

runLocals == <<prompt, input_messages, full_text, output_text, status,
               delivered, renders, errors, raised>>

\* The locals and the output log of a script run that has not streamed.
ClearRun ==
    /\ prompt' = <<>>
    /\ input_messages' = <<>>
    /\ full_text' = <<>>
    /\ output_text' = <<>>
    /\ status' = "Idle"
    /\ delivered' = <<>>
    /\ renders' = <<>>
    /\ errors' = 0
    /\ raised' = FALSE

Init ==
    /\ messages = init_state(FALSE, <<>>)
    /\ pc = "idle"
    /\ prompt = <<>>
    /\ input_messages = <<>>
    /\ full_text = <<>>
    /\ output_text = <<>>
    /\ status = "Idle"
    /\ delivered = <<>>
    /\ renders = <<>>
    /\ errors = 0
    /\ raised = FALSE
    /\ history = <<>>
    /\ appended = 0
    /\ cleared = 0
    /\ resets = 0

\* ---------------------------------------------------------------- actions
\* A run with the Clean chat button pressed: render_sidebar resets the
\* history and st.rerun() starts a run that only renders.
CleanChat ==
    /\ pc = "idle"
    /\ resets < MaxResets
    /\ messages' = CleanChatMessages(init_state(TRUE, messages))
    /\ history' = <<>>
    /\ resets' = resets + 1
    /\ cleared' = cleared + Len(messages)
    /\ UNCHANGED <<pc, runLocals, appended>>

\* A run started by st.chat_input: with a prompt, the user message is
\* appended, the request is built and stream_response is entered
\* (full_text = ""); without one, the run only renders.
Submit(p) ==
    /\ pc = "idle"
    /\ UserTurns(messages) < MaxTurns
    /\ resets' = 0
    /\ cleared' = 0
    /\ IF Truthy(p)
       THEN /\ messages' = append_and_render_user(init_state(TRUE, messages), p)
            /\ history' = Append(history, Message("user", p))
            /\ prompt' = p
            /\ input_messages' = BuildInput(messages')
            /\ full_text' = <<>>
            /\ pc' = "open"
            /\ status' = "Streaming"
            /\ appended' = 0
            /\ UNCHANGED <<output_text, delivered, renders, errors, raised>>
       ELSE /\ messages' = init_state(TRUE, messages)
            /\ UNCHANGED <<pc, runLocals, history, appended>>

\* except Exception: st.error(...); return ""
Fail ==
    /\ errors' = StError(errors)
    /\ output_text' = FailureResult
    /\ status' = "Failed"
    /\ pc' = "returned"
    /\ UNCHANGED <<messages, prompt, input_messages, full_text, delivered,
                   renders, history, appended, cleared, resets>>

\* An exception reaches the except branch
Raise ==
    /\ raised' = TRUE
    /\ Fail

\* client.responses.stream(...) opens
OpenStream ==
    /\ pc = "open"
    /\ pc' = "iter"
    /\ UNCHANGED <<messages, runLocals, history, appended, cleared, resets>>

\* client.responses.stream(...) raises
OpenFail ==
    /\ pc = "open"
    /\ Raise

\* Variant: each fragment is also written into the transcript
NextEventWritesTranscript(e) ==
    /\ pc = "iter"
    /\ Len(delivered) < MaxEvents
    /\ delivered' = Append(delivered, e)
    /\ full_text' = Accumulate(full_text, e)
    /\ renders' = Render(renders, full_text, e)
    /\ messages' = IF e.type = DeltaType
                    THEN Append(messages, Message("assistant", full_text'))
                    ELSE messages
    /\ UNCHANGED <<pc, prompt, input_messages, output_text, status,
                   errors, raised, history, appended, cleared, resets>>

\* One iteration of `for event in stream`
NextEvent(e) ==
    /\ pc = "iter"
    /\ Len(delivered) < MaxEvents
    /\ delivered' = Append(delivered, e)
    /\ full_text' = Accumulate(full_text, e)
    /\ renders' = Render(renders, full_text, e)
    /\ UNCHANGED <<messages, pc, prompt, input_messages, output_text, status,
                   errors, raised, history, appended, cleared, resets>>

\* The iterator raises (transport error) inside the for loop
IterFail ==
    /\ pc = "iter"
    /\ Raise

\* The event source is exhausted: the for loop ends
EndOfEvents ==
    /\ pc = "iter"
    /\ pc' = "until_done"
    /\ UNCHANGED <<messages, runLocals, history, appended, cleared, resets>>

\* Variant: a stream that ended without a completion event is reported as failed
UntilDoneNeedsSignal ==
    /\ pc = "until_done"
    /\ IF \E i \in 1..Len(delivered) : delivered[i].type = "response.completed"
       THEN /\ output_text' = full_text
            /\ status' = "Completed"
            /\ pc' = "returned"
            /\ UNCHANGED <<messages, prompt, input_messages, full_text, delivered,
                           renders, errors, raised, history, appended, cleared, resets>>
       ELSE /\ Fail
            /\ UNCHANGED raised

\* stream.until_done() returns, the with block closes, return full_text
UntilDone ==
    /\ pc = "until_done"
    /\ output_text' = full_text
    /\ status' = "Completed"
    /\ pc' = "returned"
    /\ UNCHANGED <<messages, prompt, input_messages, full_text, delivered,
                   renders, errors, raised, history, appended, cleared, resets>>

\* stream.until_done() raises
UntilDoneFail ==
    /\ pc = "until_done"
    /\ Raise

\* Main script after stream_response: save the assistant reply; the run ends.
Save ==
    /\ pc = "returned"
    /\ messages' = SaveReply(messages, output_text)
    /\ history' = IF messages' = messages THEN history
                  ELSE Append(history, messages'[Len(messages')])
    /\ appended' = appended + (Len(messages') - Len(messages))
    /\ pc' = "idle"
    /\ ClearRun
    /\ UNCHANGED <<cleared, resets>>

Next ==
    \/ CleanChat
    \/ \E p \in PromptInputs : Submit(p)
    \/ OpenStream
    \/ OpenFail
    \/ \E e \in Events : NextEvent(e)
    \/ IterFail
    \/ EndOfEvents
    \/ UntilDone
    \/ UntilDoneFail
    \/ Save

Spec == Init /\ [][Next]_vars

TypeOK ==
    /\ pc \in {"idle", "open", "iter", "until_done", "returned"}
    /\ status \in {"Idle", "Streaming", "Completed", "Failed"}
    /\ errors \in 0..1
    /\ UserTurns(messages) \in 0..MaxTurns

\* Fairness of a run: the script executes its next statement; the stream
\* delivers its next event, ends, or raises.
StreamStep ==
    \/ OpenStream
    \/ OpenFail
    \/ \E e \in Events : NextEvent(e)
    \/ IterFail
    \/ EndOfEvents
    \/ UntilDone
    \/ UntilDoneFail
    \/ Save

LiveSpec == Init /\ [][Next]_vars /\ WF_vars(StreamStep)

\* ------------------------------------------------- vocabulary of the claims
InFlight == pc \in {"open", "iter", "until_done", "returned"}
InAccumulator == pc \in {"open", "iter", "until_done"}

\* Payloads of the text-fragment events of an event sequence, in order
FragmentsOf(evs) == SelectSeq(evs, LAMBDA e : e.type = DeltaType)

RECURSIVE ConcatFragments(_)
ConcatFragments(evs) ==
    IF evs = <<>> THEN <<>>
    ELSE IF Head(evs).type = DeltaType
         THEN Head(evs).delta \o ConcatFragments(Tail(evs))
         ELSE ConcatFragments(Tail(evs))

\* f1 + ... + fk of the fragments f1..fN of an event sequence
PrefixText(evs, k) == ConcatFragments(SubSeq(FragmentsOf(evs), 1, k))

\* <<f1, f1+f2, ..., f1+...+fN>>
NonEmptyPrefixes(evs) ==
    [k \in 1..Len(FragmentsOf(evs)) |-> PrefixText(evs, k)]

\* <<"", f1, f1+f2, ..., f1+...+fN>>
AllPrefixes(evs) == <<PrefixText(evs, 0)>> \o NonEmptyPrefixes(evs)

HasCompletionSignal(evs) ==
    \E i \in 1..Len(evs) : evs[i].type = "response.completed"

\* ------------------------------------------------------------------ claims

\* C1: while the stream delivers events without error the accumulated text
\* is the concatenation of the payloads of the text-fragment events received,
\* in arrival order, whatever other events are interleaved, and a completed
\* stream returns exactly that concatenation.
C1_ReturnsConcatenation ==
    /\ (pc \in {"iter", "until_done"} => full_text = ConcatFragments(delivered))
    /\ (pc = "returned" /\ status = "Completed"
            => output_text = ConcatFragments(delivered))

C1_Witness ==
    /\ pc = "returned"
    /\ status = "Completed"
    /\ Len(delivered) = 2
    /\ delivered[1].type # DeltaType
    /\ delivered[2].type = DeltaType
    /\ output_text = delivered[2].delta
    /\ output_text # <<>>

\* C2: an error raised while opening the stream, while iterating or in
\* until_done ends stream_response normally with one error notification and
\* the empty result, never the partial buffer, and the transcript gets no
\* assistant message for that turn.
C2_FailureDiscardsPartial ==
    [][ /\ (raised' /\ ~raised =>
                /\ pc' = "returned"
                /\ errors' = errors + 1
                /\ output_text' = <<>>
                /\ messages' = messages)
        /\ (raised /\ pc = "returned" =>
                /\ messages' = messages
                /\ appended' = 0) ]_vars

C2_Witness ==
    /\ pc = "returned"
    /\ raised
    /\ Len(FragmentsOf(delivered)) = 2
    /\ full_text # <<>>
    /\ output_text = <<>>
    /\ errors = 1

\* C3 (as stated): a completed stream never returns the value that a failure
\* returns.
C3_Distinguishable ==
    (pc = "returned" /\ status = "Completed") => output_text # FailureResult

\* C3 (amended): a failure returns the empty text, which is also what a
\* completed stream with no text returns; the two are told apart by the error
\* notification only, which is shown exactly when the generation failed.
C3_FailureToldByNotification ==
    pc = "returned" =>
        /\ (status = "Failed" <=> errors = 1)
        /\ (status = "Completed" <=> errors = 0)
        /\ (status = "Failed" => output_text = <<>>)
        /\ (status = "Completed" /\ full_text = <<>> => output_text = <<>>)

C3_Witness ==
    /\ pc = "returned"
    /\ status = "Completed"
    /\ output_text = FailureResult
    /\ errors = 0

\* C4 (as stated): every completed stream, also one with empty final text,
\* appends its final text to the transcript as one assistant message.
C4_CompletedAlwaysAppended ==
    [][ pc = "returned" /\ status = "Completed"
            => messages' = Append(messages, Message("assistant", output_text)) ]_vars

\* C4 (amended): a completed stream with non-empty final text appends it as
\* one assistant message; a completed stream with empty final text appends
\* nothing.
C4_CompletedNonEmptyAppended ==
    [][ pc = "returned" /\ status = "Completed"
            => messages' = IF output_text # <<>>
                           THEN Append(messages, Message("assistant", output_text))
                           ELSE messages ]_vars

C4_Witness ==
    /\ pc = "idle"
    /\ appended = 1
    /\ Len(messages) = 2
    /\ messages[2].role = "assistant"
    /\ Len(messages[2].content) = 2

\* C5: the message list of every request is the whole transcript at the time
\* of the request: all messages appended since the last reset, in order, with
\* role and content unchanged, ending with the user message just submitted.
C5_FullTranscriptResend ==
    InFlight =>
        /\ input_messages = history
        /\ input_messages = messages
        /\ Len(input_messages) >= 1
        /\ input_messages[Len(input_messages)] = Message("user", prompt)

C5_Witness ==
    /\ pc = "open"
    /\ Len(input_messages) = 5
    /\ \A i \in {1, 3, 5} : input_messages[i].role = "user"
    /\ \A i \in {2, 4} : input_messages[i].role = "assistant"
    /\ input_messages[2].content # input_messages[4].content

\* C6 (as stated): the values passed to placeholder.markdown are the prefixes
\* "", f1, f1+f2, ..., f1+...+fN and the last one is the returned text.
C6_RendersAllPrefixes ==
    (pc = "returned" /\ status = "Completed") =>
        /\ renders = AllPrefixes(delivered)
        /\ renders[Len(renders)] = output_text

\* C6 (amended): the values passed to placeholder.markdown are f1, f1+f2, ...,
\* f1+...+fN, one per fragment received and none for the empty text before
\* the first fragment; when a stream with at least one fragment completes,
\* the last value rendered is the returned text.
C6_RendersNonEmptyPrefixes ==
    /\ (InFlight => renders = NonEmptyPrefixes(delivered))
    /\ (pc = "returned" /\ status = "Completed" /\ renders # <<>>
            => renders[Len(renders)] = output_text)

C6_Witness ==
    /\ pc = "returned"
    /\ status = "Completed"
    /\ Len(renders) = 2
    /\ renders[1] # <<>>
    /\ renders[2] # renders[1]

\* C7: a stream whose event source ends without a completion signal and
\* without an error completes with the concatenation of the fragments
\* received and no failure report, and no generation stays in Streaming
\* forever.
C7_EndOfEventsCompletes ==
    /\ [](pc = "returned" /\ ~raised =>
            /\ status = "Completed"
            /\ errors = 0
            /\ output_text = ConcatFragments(delivered))
    /\ (status = "Streaming" ~> status \in {"Completed", "Failed"})

C7_Witness ==
    /\ pc = "returned"
    /\ status = "Completed"
    /\ ~HasCompletionSignal(delivered)
    /\ Len(FragmentsOf(delivered)) = 2
    /\ Len(output_text) = 2
    /\ output_text[1] # output_text[2]

\* C8: Clean chat empties the transcript from any state, also when repeated,
\* and after a reset the transcript is what a fresh session would hold after
\* the same appends.
C8_ResetIsFresh ==
    /\ (resets > 0 => messages = init_state(FALSE, messages))
    /\ messages = history

C8_Witness ==
    /\ resets >= 2
    /\ cleared >= 2
    /\ messages = <<>>

\* C9: stream_response never changes the transcript; a generation changes it
\* only by the one append of an assistant message that the main script makes
\* after stream_response has returned.
C9_AccumulatorLeavesTranscript ==
    [][ /\ (InAccumulator => messages' = messages)
        /\ (InFlight /\ messages' # messages =>
                /\ pc = "returned"
                /\ pc' = "idle"
                /\ Len(messages') = Len(messages) + 1
                /\ SubSeq(messages', 1, Len(messages)) = messages
                /\ messages'[Len(messages')].role = "assistant") ]_vars

C9_Witness ==
    /\ pc = "until_done"
    /\ Len(FragmentsOf(delivered)) = 2
    /\ full_text # <<>>
    /\ messages[Len(messages)].role = "user"
    /\ Len(messages) = 3

\* C10: every message has role user or assistant, every assistant message
\* has non-empty content and directly follows a user message, and a
\* submission appends at most one assistant message.
C10_TranscriptShape ==
    /\ \A i \in 1..Len(messages) :
        /\ messages[i].role \in {"user", "assistant"}
        /\ (messages[i].role = "assistant" =>
                /\ messages[i].content # <<>>
                /\ i > 1
                /\ messages[i - 1].role = "user")
    /\ appended <= 1
    /\ NumRole(messages, "assistant") <= NumRole(messages, "user")

C10_Witness ==
    /\ pc = "idle"
    /\ Len(messages) = 3
    /\ messages[1].role = "user"
    /\ messages[2].role = "user"
    /\ messages[3].role = "assistant"
====
